---- MODULE Spec2Model ----
(***************************************************************************)
(* The OpenAPI $ref resolver of src/src/lib/openapi-resolver.ts as a state *)
(* machine.  Documents live in a heap of JavaScript objects and arrays, so *)
(* that object identity (===), allocation and mutation are observable.     *)
(* dereferenceSchema runs one activation step at a time on an explicit     *)
(* call stack, sharing one mutable visited set, exactly as the recursion   *)
(* in the source does.                                                     *)
(***************************************************************************)
EXTENDS Integers, Sequences, FiniteSets, TLC

VARIABLES
    heap,      \* the JavaScript heap: address -> object or array cell
    doc,       \* the parsed document the run started from, as a tree
    spec,      \* the `spec` argument of the exported function being run
    op,        \* the exported function being called
    arg,       \* the `schema` argument of a direct dereferenceSchema call
    refMap,    \* the RefMap built by collectRefs (insertion ordered)
    visited,   \* the Set<string> shared by one top-level dereferenceSchema call
    stack,     \* activations of dereferenceSchema, innermost last
    mode,      \* "call": the top activation is at its entry; "ret": it has returned
    cur,       \* the value just returned by the top activation
    pc,        \* position in the exported function
    out,       \* local of the exported function: result object / loop index
    resolved,  \* the Map dereferenceAllSchemas or collectRefs returns
    result,    \* the value the exported function returned
    history,   \* results of the completed dereferenceSpec passes, oldest first
    heap0      \* the heap as it was when the exported function was called

vars == <<heap, doc, spec, op, arg, refMap, visited, stack, mode, cur, pc, out,
          resolved, result, history, heap0>>

----------------------------------------------------------------------------
(* Bounds *)

\* nested dereferenceSchema activations the model follows; no run may need more
MaxStack == 14
\* named schemas of a generated document beyond A and B
NumExtra == 0
\* successive dereferenceSpec passes, each fed the previous pass's result
MaxPasses == 2

----------------------------------------------------------------------------
(* JavaScript values.  A value is a primitive or a pointer into the heap. *)

Null == [t |-> "null"]
Undefined == [t |-> "undefined"]
Str(s) == [t |-> "string", s |-> s]
Bool(b) == [t |-> "boolean", b |-> b]
Num(n) == [t |-> "number", n |-> n]
Ptr(a) == [t |-> "ptr", a |-> a]

\* trees: the structural (JSON) shape of a value, used for parsed documents
\* and for structural comparison
O(e) == [t |-> "object", e |-> e]
Ar(items) == [t |-> "array", items |-> items]

\* heap cells
ObjCell(e) == [k |-> "object", e |-> e]
ArrCell(items) == [k |-> "array", items |-> items]

\* !v
Truthy(v) ==
    CASE v.t = "null" -> FALSE
      [] v.t = "undefined" -> FALSE
      [] v.t = "string" -> v.s # ""
      [] v.t = "boolean" -> v.b
      [] v.t = "number" -> v.n # 0
      [] OTHER -> TRUE

\* typeof v === "object"  (true of null, objects and arrays)
TypeofObject(v) == v.t \in {"ptr", "null"}

\* Array.isArray(v)
IsArray(h, v) == v.t = "ptr" /\ h[v.a].k = "array"

\* reading a property of null or undefined throws TypeError
GetThrows(v) == v.t \in {"null", "undefined"}

RECURSIVE Lookup(_, _)
Lookup(e, key) ==
    IF e = <<>> THEN Undefined
    ELSE IF Head(e)[1] = key THEN Head(e)[2]
    ELSE Lookup(Tail(e), key)

HasKey(e, key) == \E i \in 1..Len(e) : e[i][1] = key

\* v[key] for a string key that is no array index and no built-in property
Get(h, v, key) ==
    IF v.t = "ptr" /\ h[v.a].k = "object" THEN Lookup(h[v.a].e, key)
    ELSE Undefined

IndexKeys == <<"0", "1", "2", "3", "4", "5", "6", "7">>

\* Object.entries(v) of an object or array
ObjectEntries(h, v) ==
    IF h[v.a].k = "object" THEN h[v.a].e
    ELSE [i \in 1..Len(h[v.a].items) |-> <<IndexKeys[i], h[v.a].items[i]>>]

\* obj[key] = val on a list of own properties: an existing key keeps its place
SetEntry(e, key, val) ==
    IF HasKey(e, key)
    THEN [i \in 1..Len(e) |-> IF e[i][1] = key THEN <<key, val>> ELSE e[i]]
    ELSE Append(e, <<key, val>>)

\* an object that lists each newly assigned key before the earlier ones
SetPropFront(h, a, key, val) ==
    [h EXCEPT ![a] = ObjCell(<< <<key, val>> >> \o h[a].e)]

\* heap[a][key] = val
SetProp(h, a, key, val) ==
    [h EXCEPT ![a] = ObjCell(SetEntry(h[a].e, key, val))]

\* an array that receives each new element in front of the earlier ones
PushFront(h, a, val) == [h EXCEPT ![a] = ArrCell(<<val>> \o h[a].items)]

\* heap[a].push(val)
Push(h, a, val) == [h EXCEPT ![a] = ArrCell(Append(h[a].items, val))]

\* Map.prototype.set
MapSet(m, key, val) == SetEntry(m, key, val)

\* Map.prototype.get
MapGet(m, key) == Lookup(m, key)

----------------------------------------------------------------------------
(* Parsing a document into the heap, and reading a value back as a tree *)

RECURSIVE Load(_, _)
RECURSIVE LoadAll(_, _, _)

\* the heap after storing tree `tr`, and the value that names it
Load(h, tr) ==
    CASE tr.t = "object" ->
           LET r == LoadAll(h, [i \in 1..Len(tr.e) |-> tr.e[i][2]], <<>>)
               e == [i \in 1..Len(tr.e) |-> <<tr.e[i][1], r.vs[i]>>]
           IN  [h |-> Append(r.h, ObjCell(e)), v |-> Ptr(Len(r.h) + 1)]
      [] tr.t = "array" ->
           LET r == LoadAll(h, tr.items, <<>>)
           IN  [h |-> Append(r.h, ArrCell(r.vs)), v |-> Ptr(Len(r.h) + 1)]
      [] OTHER -> [h |-> h, v |-> tr]

\* the trees of `trs` stored one after the other, first to last
LoadAll(h, trs, acc) ==
    IF trs = <<>> THEN [h |-> h, vs |-> acc]
    ELSE LET r == Load(h, Head(trs))
         IN  IF r.h = h    \* a primitive: nothing was stored
             THEN LoadAll(h, Tail(trs), Append(acc, r.v))
             ELSE LoadAll(r.h, Tail(trs), Append(acc, r.v))

RECURSIVE Value(_, _)
\* the tree of value v: what JSON-like structural comparison sees
Value(h, v) ==
    IF v.t # "ptr" THEN v
    ELSE IF h[v.a].k = "object"
         THEN O([i \in 1..Len(h[v.a].e) |->
                    <<h[v.a].e[i][1], Value(h, h[v.a].e[i][2])>>])
         ELSE Ar([i \in 1..Len(h[v.a].items) |-> Value(h, h[v.a].items[i])])

\* a Map read structurally
MapValue(h, m) == [i \in 1..Len(m) |-> <<m[i][1], Value(h, m[i][2])>>]

----------------------------------------------------------------------------
(* collectRefs and resolveRef *)

RefPath(name) == "#/components/schemas/" \o name

RECURSIVE CollectEntries(_, _)
\* for (const [name, schema] of Object.entries(...)) map.set(`...${name}`, schema)
CollectEntries(es, map) ==
    IF es = <<>> THEN map
    ELSE CollectEntries(Tail(es), MapSet(map, RefPath(Head(es)[1]), Head(es)[2]))

\* a collector that also indexes components.parameters
collectRefsAllCategories(h, sp) ==
    IF GetThrows(sp) THEN [threw |-> TRUE, map |-> <<>>]
    ELSE LET components == Get(h, sp, "components")
             schemas == Get(h, components, "schemas")
             parameters == Get(h, components, "parameters")
         IN  [threw |-> FALSE,
              map |-> (IF Truthy(schemas) /\ TypeofObject(schemas)
                       THEN CollectEntries(ObjectEntries(h, schemas), <<>>)
                       ELSE <<>>)
                      \o (IF parameters.t = "ptr"
                          THEN [i \in 1..Len(ObjectEntries(h, parameters)) |->
                                  <<"#/components/parameters/"
                                        \o ObjectEntries(h, parameters)[i][1],
                                    ObjectEntries(h, parameters)[i][2]>>]
                          ELSE <<>>)]

\* a collector without the `if (!spec.components)` guard
collectRefsUnguarded(h, sp) ==
    IF GetThrows(sp) \/ GetThrows(Get(h, sp, "components"))
    THEN [threw |-> TRUE, map |-> <<>>]
    ELSE LET schemas == Get(h, Get(h, sp, "components"), "schemas") IN
         IF Truthy(schemas) /\ TypeofObject(schemas)
         THEN [threw |-> FALSE,
               map |-> CollectEntries(ObjectEntries(h, schemas), <<>>)]
         ELSE [threw |-> FALSE, map |-> <<>>]

\* collectRefs(spec): the map it returns, or threw when reading spec.components
\* raises TypeError
collectRefs(h, sp) ==
    IF GetThrows(sp) THEN [threw |-> TRUE, map |-> <<>>]
    ELSE LET components == Get(h, sp, "components") IN
         IF ~Truthy(components) THEN [threw |-> FALSE, map |-> <<>>]
         ELSE LET schemas == Get(h, components, "schemas") IN
              IF Truthy(schemas) /\ TypeofObject(schemas)
              THEN [threw |-> FALSE,
                    map |-> CollectEntries(ObjectEntries(h, schemas), <<>>)]
              ELSE [threw |-> FALSE, map |-> <<>>]

\* a lookup under a key the map never holds
resolveRefNever(ref, m) == Undefined

\* a lookup that prefers what an earlier call stored under the path
resolveRefCached(ref, m) ==
    IF HasKey(resolved, ref) THEN MapGet(resolved, ref) ELSE MapGet(m, ref)

\* resolveRef(ref, refMap)
resolveRef(ref, m) == MapGet(m, ref)

----------------------------------------------------------------------------
(* The pieces of dereferenceSchema *)

\* an activation record of dereferenceSchema; v0 remembers the members of
\* visited when the activation was entered
Frame(schema, vis) ==
    [schema |-> schema, at |-> "entry", ref |-> "", i |-> 0,
     entries |-> <<>>, result |-> Undefined, v0 |-> vis]

Top == stack[Len(stack)]
Parent == stack[Len(stack) - 1]
SetTop(f) == [stack EXCEPT ![Len(stack)] = f]
Pop == SubSeq(stack, 1, Len(stack) - 1)

\* a resolver that reads the reference from a key no node has
StringRefNever(h, schema) == FALSE

\* a resolver for which a node marked _circular is no reference
StringRefUnmarked(h, schema) ==
    /\ Get(h, schema, "$ref").t = "string"
    /\ Get(h, schema, "_circular") # Bool(TRUE)

\* typeof schema.$ref === "string"
StringRef(h, schema) == Get(h, schema, "$ref").t = "string"

\* a resolver that never finds a path in visited
visitedHasNever(vis, ref) == FALSE

\* a resolver that takes any expansion in progress for an expansion of ref
visitedHasAny(vis, ref) == vis # {}

\* a resolver that also takes a path the map does not hold for one in progress
visitedHasOrUnknown(vis, ref) == ref \in vis \/ ~HasKey(refMap, ref)

\* visited.has(ref)
visitedHas(vis, ref) == ref \in vis

\* a resolver that descends without recording the path
visitedAddNone(vis, ref) == vis

\* visited.add(ref)
visitedAdd(vis, ref) == vis \cup {ref}

\* a resolver that leaves the path in visited after the descent
visitedDeleteLeak(vis, ref) == vis

\* a resolver that empties visited after the descent
visitedDeleteAll(vis, ref) == {}

\* visited.delete(ref)
visitedDelete(vis, ref) == vis \ {ref}

\* a placeholder that lacks the _circular marker
CircularPlaceholderBare(ref) == ObjCell(<< <<"$ref", Str(ref)>> >>)

\* { $ref: ref, _circular: true }
CircularPlaceholder(ref) ==
    ObjCell(<< <<"$ref", Str(ref)>>, <<"_circular", Bool(TRUE)>> >>)

\* a copy that keeps the $ref key alone
SpreadCopyRefOnly(h, schema) == ObjCell(<< <<"$ref", Get(h, schema, "$ref")>> >>)

\* a copy that starts from an empty object
SpreadCopyNone(h, schema) == ObjCell(<<>>)

\* { ...schema }
SpreadCopy(h, schema) ==
    IF schema.t = "ptr" THEN ObjCell(ObjectEntries(h, schema)) ELSE ObjCell(<<>>)

\* a resolver that writes the dereferenced properties into schema itself
NewObjectAlias(h, schema) == [h |-> h, v |-> schema]

\* const result: any = {}
NewObject(h, schema) == [h |-> Append(h, ObjCell(<<>>)), v |-> Ptr(Len(h) + 1)]

\* the array schema.map(...) creates
NewArray(h, schema) == [h |-> Append(h, ArrCell(<<>>)), v |-> Ptr(Len(h) + 1)]

\* the innermost activation is at its entry (and within the depth the model follows)
Entering == mode = "call" /\ Len(stack) <= MaxStack

\* the innermost call has returned into a caller that is itself dereferenceSchema
Returning(at) == mode = "ret" /\ Len(stack) >= 2 /\ Parent.at = at

\* the outermost call has returned into the exported function
ReturnedToTop == mode = "ret" /\ Len(stack) = 1

----------------------------------------------------------------------------
(* dereferenceSchema, one activation step per action *)

input == <<doc, spec, op, arg, heap0>>
outer == <<pc, out, resolved, result, history>>

\* if (schema === null || typeof schema !== "object") return schema;
DerefPrimitive ==
    /\ Entering
    /\ Top.schema.t # "ptr"
    /\ mode' = "ret"
    /\ cur' = Top.schema
    /\ UNCHANGED <<heap, refMap, visited, stack, input, outer>>

\* if (visited.has(ref)) return { $ref: ref, _circular: true };
DerefCircular ==
    /\ Entering
    /\ Top.schema.t = "ptr"
    /\ StringRef(heap, Top.schema)
    /\ LET ref == Get(heap, Top.schema, "$ref").s IN
       /\ visitedHas(visited, ref)
       /\ heap' = Append(heap, CircularPlaceholder(ref))
       /\ cur' = Ptr(Len(heap) + 1)
    /\ mode' = "ret"
    /\ UNCHANGED <<refMap, visited, stack, input, outer>>

\* if (!resolved) return { ...schema };
DerefUnresolved ==
    /\ Entering
    /\ Top.schema.t = "ptr"
    /\ StringRef(heap, Top.schema)
    /\ LET ref == Get(heap, Top.schema, "$ref").s IN
       /\ ~visitedHas(visited, ref)
       /\ ~Truthy(resolveRef(ref, refMap))
    /\ heap' = Append(heap, SpreadCopy(heap, Top.schema))
    /\ cur' = Ptr(Len(heap) + 1)
    /\ mode' = "ret"
    /\ UNCHANGED <<refMap, visited, stack, input, outer>>

\* visited.add(ref); dereferenceSchema(resolved, refMap, visited)
DerefResolve ==
    /\ Entering
    /\ Top.schema.t = "ptr"
    /\ StringRef(heap, Top.schema)
    /\ LET ref == Get(heap, Top.schema, "$ref").s IN
       /\ ~visitedHas(visited, ref)
       /\ Truthy(resolveRef(ref, refMap))
       /\ visited' = visitedAdd(visited, ref)
       /\ stack' = Append(SetTop([Top EXCEPT !.at = "ref", !.ref = ref]),
                          Frame(resolveRef(ref, refMap), visited'))
    /\ mode' = "call"
    /\ UNCHANGED <<heap, refMap, cur, input, outer>>

\* visited.delete(ref); return dereferenced;
DerefResolveReturn ==
    /\ Returning("ref")
    /\ visited' = visitedDelete(visited, Parent.ref)
    /\ stack' = Pop
    /\ UNCHANGED <<heap, refMap, mode, cur, input, outer>>

\* if (Array.isArray(schema)) return schema.map(...): the first element
DerefArray ==
    /\ Entering
    /\ Top.schema.t = "ptr"
    /\ ~StringRef(heap, Top.schema)
    /\ IsArray(heap, Top.schema)
    /\ LET r == NewArray(heap, Top.schema)
           items == heap[Top.schema.a].items
       IN  /\ heap' = r.h
           /\ IF items = <<>>
              THEN /\ mode' = "ret"
                   /\ cur' = r.v
                   /\ stack' = stack
              ELSE /\ mode' = "call"
                   /\ cur' = cur
                   /\ stack' = Append(
                        SetTop([Top EXCEPT !.at = "array", !.i = 1, !.result = r.v]),
                        Frame(items[1], visited))
    /\ UNCHANGED <<refMap, visited, input, outer>>

\* schema.map(...): store the element just dereferenced, go on to the next
DerefArrayNext ==
    /\ Returning("array")
    /\ LET f == Parent
           items == heap[f.schema.a].items
       IN  /\ heap' = Push(heap, f.result.a, cur)
           /\ IF f.i < Len(items)
              THEN /\ mode' = "call"
                   /\ cur' = cur
                   /\ stack' = Append(
                        [Pop EXCEPT ![Len(stack) - 1] = [f EXCEPT !.i = f.i + 1]],
                        Frame(items[f.i + 1], visited))
              ELSE /\ mode' = "ret"
                   /\ cur' = f.result
                   /\ stack' = Pop
    /\ UNCHANGED <<refMap, visited, input, outer>>

\* const result = {}; for (const [key, value] of Object.entries(schema)) ...
DerefObject ==
    /\ Entering
    /\ Top.schema.t = "ptr"
    /\ ~StringRef(heap, Top.schema)
    /\ ~IsArray(heap, Top.schema)
    /\ LET r == NewObject(heap, Top.schema)
           es == ObjectEntries(heap, Top.schema)
       IN  /\ heap' = r.h
           /\ IF es = <<>>
              THEN /\ mode' = "ret"
                   /\ cur' = r.v
                   /\ stack' = stack
              ELSE /\ mode' = "call"
                   /\ cur' = cur
                   /\ stack' = Append(
                        SetTop([Top EXCEPT !.at = "object", !.i = 1,
                                           !.entries = es, !.result = r.v]),
                        Frame(es[1][2], visited))
    /\ UNCHANGED <<refMap, visited, input, outer>>

\* result[key] = dereferenceSchema(value, refMap, visited); next entry
DerefObjectNext ==
    /\ Returning("object")
    /\ LET f == Parent IN
       /\ heap' = SetProp(heap, f.result.a, f.entries[f.i][1], cur)
       /\ IF f.i < Len(f.entries)
          THEN /\ mode' = "call"
               /\ cur' = cur
               /\ stack' = Append(
                    [Pop EXCEPT ![Len(stack) - 1] = [f EXCEPT !.i = f.i + 1]],
                    Frame(f.entries[f.i + 1][2], visited))
          ELSE /\ mode' = "ret"
               /\ cur' = f.result
               /\ stack' = Pop
    /\ UNCHANGED <<refMap, visited, input, outer>>

----------------------------------------------------------------------------
(* simplifySchema *)

Digits == <<"0", "1", "2", "3", "4", "5", "6", "7", "8", "9">>

RECURSIVE NumStr(_)
\* String(n) for an integer n
NumStr(n) ==
    IF n < 0 THEN "-" \o NumStr(0 - n)
    ELSE IF n < 10 THEN Digits[n + 1]
    ELSE NumStr(n \div 10) \o Digits[(n % 10) + 1]

RECURSIVE JoinStr(_, _)
\* Array.prototype.join on an array of strings
JoinStr(strs, sep) ==
    IF strs = <<>> THEN ""
    ELSE IF Len(strs) = 1 THEN strs[1]
    ELSE strs[1] \o sep \o JoinStr(Tail(strs), sep)

RECURSIVE JSONStringify(_, _)
\* JSON.stringify(v) of a string without characters to escape, a number, a
\* boolean, null, or an array or object of such; inside an array undefined
\* reads null, inside an object a key holding undefined is left out
JSONStringify(h, v) ==
    CASE v.t = "string" -> "\"" \o v.s \o "\""
      [] v.t = "number" -> NumStr(v.n)
      [] v.t = "boolean" -> IF v.b THEN "true" ELSE "false"
      [] v.t \in {"null", "undefined"} -> "null"
      [] OTHER ->
           IF h[v.a].k = "array"
           THEN "[" \o JoinStr([i \in 1..Len(h[v.a].items) |->
                                   JSONStringify(h, h[v.a].items[i])], ",") \o "]"
           ELSE LET es == SelectSeq(h[v.a].e, LAMBDA en : en[2].t # "undefined")
                IN  "{" \o JoinStr([i \in 1..Len(es) |->
                                      "\"" \o es[i][1] \o "\":"
                                          \o JSONStringify(h, es[i][2])], ",") \o "}"

\* one element of schema.enum.map((v) => JSON.stringify(v)) as join sees it:
\* JSON.stringify(undefined) is undefined, which join renders as ''
EnumPiece(h, v) == IF v.t = "undefined" THEN "" ELSE JSONStringify(h, v)

\* what a call returns: the heap after it, and its value or that it threw
Ret(h, v) == [h |-> h, v |-> v, threw |-> FALSE]
Throw(h) == [h |-> h, v |-> Undefined, threw |-> TRUE]

\* Object.entries(x) of an object, an array, a number or a boolean
OwnEntries(h, x) == IF x.t = "ptr" THEN ObjectEntries(h, x) ELSE <<>>

\* a marker that keeps every key of the node
RefMarkerWhole(h, schema) == ObjCell(ObjectEntries(h, schema))

\* { $ref: schema.$ref }
RefMarker(h, schema) == ObjCell(<< <<"$ref", Get(h, schema, "$ref")>> >>)

\* a display that looks at format before enum
StringDisplayFormatFirst(h, schema) ==
    IF Truthy(Get(h, schema, "format")) THEN Ret(h, Get(h, schema, "format"))
    ELSE IF Truthy(Get(h, schema, "enum")) /\ IsArray(h, Get(h, schema, "enum"))
    THEN LET vs == h[Get(h, schema, "enum").a].items
         IN  Ret(h, Str("enum (" \o JoinStr([i \in 1..Len(vs) |-> EnumPiece(h, vs[i])],
                                            ", ") \o ")"))
    ELSE IF Truthy(Get(h, schema, "enum")) THEN Throw(h)
    ELSE Ret(h, Str("string"))

\* if (schema.type === 'string') { enum, format, 'string' }
\* schema.enum.map of a truthy value that is no array raises TypeError
StringDisplay(h, schema) ==
    LET enum == Get(h, schema, "enum")
        format == Get(h, schema, "format")
    IN  IF Truthy(enum)
        THEN IF IsArray(h, enum)
             THEN LET vs == h[enum.a].items
                  IN  Ret(h, Str("enum ("
                                 \o JoinStr([i \in 1..Len(vs) |-> EnumPiece(h, vs[i])], ", ")
                                 \o ")"))
             ELSE Throw(h)
        ELSE IF Truthy(format) THEN Ret(h, format)
        ELSE Ret(h, Str("string"))

\* a display that never folds the items into the string
ArrayOfItemsAsObject(h, item) ==
    Ret(Append(h, ObjCell(<< <<"type", Str("array")>>, <<"items", item>> >>)),
        Ptr(Len(h) + 1))

\* typeof itemSimplified === 'string' ? `array of ${itemSimplified}`
\*                                    : { type: 'array', items: itemSimplified }
ArrayOfItems(h, item) ==
    IF item.t = "string" THEN Ret(h, Str("array of " \o item.s))
    ELSE Ret(Append(h, ObjCell(<< <<"type", Str("array")>>, <<"items", item>> >>)),
             Ptr(Len(h) + 1))

RECURSIVE simplifySchema(_, _)
RECURSIVE SimplifyProperties(_, _, _, _)

\* a loop that stores each property's schema as it is
SimplifyPropertiesRaw(h, es, i, res) == Ret([h EXCEPT ![res.a] = ObjCell(es)], res)

\* for (const [propName, propSchema] of Object.entries(schema.properties))
\*     result[propName] = simplifySchema(propSchema)
SimplifyProperties(h, es, i, res) ==
    IF i > Len(es) THEN Ret(h, res)
    ELSE LET r == simplifySchema(h, es[i][2]) IN
         IF r.threw THEN r
         ELSE SimplifyProperties(SetProp(r.h, res.a, es[i][1], r.v), es, i + 1, res)

simplifySchema(h, schema) ==
    IF ~Truthy(schema) \/ schema.t # "ptr" THEN Ret(h, schema)
    ELSE IF Truthy(Get(h, schema, "$ref"))
    THEN Ret(Append(h, RefMarker(h, schema)), Ptr(Len(h) + 1))
    ELSE LET type == Get(h, schema, "type") IN
         IF type = Str("object") /\ Truthy(Get(h, schema, "properties"))
         THEN SimplifyProperties(Append(h, ObjCell(<<>>)),
                                 OwnEntries(h, Get(h, schema, "properties")),
                                 1, Ptr(Len(h) + 1))
         ELSE IF type = Str("array")
         THEN IF Truthy(Get(h, schema, "items"))
              THEN LET r == simplifySchema(h, Get(h, schema, "items")) IN
                   IF r.threw THEN r ELSE ArrayOfItems(r.h, r.v)
              ELSE Ret(h, Str("array"))
         ELSE IF type = Str("string") THEN StringDisplay(h, schema)
         ELSE IF type = Str("number") \/ type = Str("integer") THEN Ret(h, type)
         ELSE IF type = Str("boolean") THEN Ret(h, Str("boolean"))
         ELSE IF Truthy(type) THEN Ret(h, type)
         ELSE Ret(h, schema)

----------------------------------------------------------------------------
(* The exported functions *)

inner == <<visited, stack, mode, cur>>

\* a call that hands down a set holding the entries the loop resolved before
CallDerefAfterResolved(schema) ==
    /\ visited' = {resolved[i][1] : i \in 1..Len(resolved)}
                     \cup (IF pc = "loop" THEN {refMap[out][1]} ELSE {})
    /\ stack' = <<Frame(schema, visited')>>
    /\ mode' = "call"
    /\ cur' = Undefined

\* a call of dereferenceSchema(schema, refMap) from an exported function or a
\* test: visited defaults to a new Set()
CallDeref(schema) ==
    /\ visited' = {}
    /\ stack' = <<Frame(schema, {})>>
    /\ mode' = "call"
    /\ cur' = Undefined

EndDeref ==
    /\ stack' = <<>>
    /\ mode' = "idle"
    /\ UNCHANGED <<visited, cur>>

\* collectRefs(spec), called directly
CallCollectRefs ==
    /\ pc = "start"
    /\ op = "collectRefs"
    /\ LET r == collectRefs(heap, spec) IN
       IF r.threw
       THEN pc' = "threw" /\ resolved' = resolved
       ELSE pc' = "returned" /\ resolved' = r.map
    /\ UNCHANGED <<heap, refMap, inner, input, out, result, history>>

\* dereferenceSchema(schema, refs), called directly with refs = collectRefs(spec)
CallDereferenceSchema ==
    /\ pc = "start"
    /\ op = "dereferenceSchema"
    /\ CallDeref(arg)
    /\ pc' = "deref"
    /\ UNCHANGED <<heap, refMap, input, out, resolved, result, history>>

ReturnDereferenceSchema ==
    /\ pc = "deref"
    /\ ReturnedToTop
    /\ result' = cur
    /\ pc' = "returned"
    /\ EndDeref
    /\ UNCHANGED <<heap, refMap, input, out, resolved, history>>

\* dereferenceAllSchemas(spec): collectRefs, then the first entry of the loop
AllStart ==
    /\ pc = "start"
    /\ op = "dereferenceAllSchemas"
    /\ LET r == collectRefs(heap, spec) IN
       IF r.threw
       THEN /\ pc' = "threw"
            /\ UNCHANGED <<refMap, resolved, out, inner>>
       ELSE /\ refMap' = r.map
            /\ resolved' = <<>>
            /\ IF r.map = <<>>
               THEN pc' = "returned" /\ UNCHANGED <<out, inner>>
               ELSE pc' = "loop" /\ out' = 1 /\ CallDeref(r.map[1][2])
    /\ UNCHANGED <<heap, input, result, history>>

\* resolved.set(ref, dereferenceSchema(schema, refMap)); next entry
AllNext ==
    /\ pc = "loop"
    /\ ReturnedToTop
    /\ resolved' = MapSet(resolved, refMap[out][1], cur)
    /\ IF out < Len(refMap)
       THEN pc' = "loop" /\ out' = out + 1 /\ CallDeref(refMap[out + 1][2])
       ELSE pc' = "returned" /\ out' = out /\ EndDeref
    /\ UNCHANGED <<heap, refMap, input, result, history>>

\* dereferenceSpec(spec): collectRefs, { ...spec, then paths: deref(spec.paths)
SpecStart ==
    /\ pc = "start"
    /\ op = "dereferenceSpec"
    /\ LET r == collectRefs(heap, spec) IN
       IF r.threw
       THEN /\ pc' = "threw"
            /\ UNCHANGED <<heap, refMap, out, inner>>
       ELSE /\ refMap' = r.map
            /\ heap' = Append(heap, SpreadCopy(heap, spec))
            /\ out' = Ptr(Len(heap) + 1)
            /\ pc' = "paths"
            /\ CallDeref(Get(heap, spec, "paths"))
    /\ UNCHANGED <<input, resolved, result, history>>

\* components: spec.components ? deref(spec.components) : undefined
SpecPaths ==
    /\ pc = "paths"
    /\ ReturnedToTop
    /\ IF Truthy(Get(heap, spec, "components"))
       THEN /\ heap' = SetProp(heap, out.a, "paths", cur)
            /\ pc' = "components"
            /\ CallDeref(Get(heap, spec, "components"))
            /\ UNCHANGED <<result, history>>
       ELSE /\ heap' = SetProp(SetProp(heap, out.a, "paths", cur),
                               out.a, "components", Undefined)
            /\ pc' = "returned"
            /\ result' = out
            /\ history' = Append(history, out)
            /\ EndDeref
    /\ UNCHANGED <<refMap, input, out, resolved>>

SpecComponents ==
    /\ pc = "components"
    /\ ReturnedToTop
    /\ heap' = SetProp(heap, out.a, "components", cur)
    /\ pc' = "returned"
    /\ result' = out
    /\ history' = Append(history, out)
    /\ EndDeref
    /\ UNCHANGED <<refMap, input, out, resolved>>

\* the caller feeds the document dereferenceSpec returned to dereferenceSpec again
SpecAgain ==
    /\ pc = "returned"
    /\ op = "dereferenceSpec"
    /\ Len(history) < MaxPasses
    /\ spec' = result
    /\ heap0' = heap
    /\ pc' = "start"
    /\ UNCHANGED <<heap, doc, op, arg, refMap, inner, out, resolved, result, history>>

\* simplifySchema(schema), called directly
CallSimplifySchema ==
    /\ pc = "start"
    /\ op = "simplifySchema"
    /\ LET r == simplifySchema(heap, spec) IN
       IF r.threw
       THEN pc' = "threw" /\ UNCHANGED <<heap, result>>
       ELSE pc' = "returned" /\ heap' = r.h /\ result' = r.v
    /\ UNCHANGED <<refMap, inner, input, out, resolved, history>>

----------------------------------------------------------------------------
(* The documents and calls the runs start from *)

\* schema names of the generated documents: A and B, whose bodies range over
\* Bodies, and NumExtra further names, whose bodies range over ExtraBodies;
\* a $ref may hold the path of each name, and one path no document defines
ExtraSeq == <<"C", "D">>
Names == {"A", "B"} \cup {ExtraSeq[i] : i \in 1..NumExtra}
Targets == {RefPath(n) : n \in Names} \cup {RefPath("Missing")}

Leaf == O(<< <<"type", Str("string")>> >>)
RefNode(p) == O(<< <<"$ref", Str(p)>> >>)
\* a reference with a sibling keyword
RefWithSibling(p) == O(<< <<"$ref", Str(p)>>, <<"description", Str("d")>> >>)
\* an object schema whose property `next` is a reference
Linked(p) == O(<< <<"type", Str("object")>>,
                  <<"properties", O(<< <<"next", RefNode(p)>> >>)>> >>)
\* an array of two references
AllOf(p, q) == O(<< <<"allOf", Ar(<<RefNode(p), RefNode(q)>>)>> >>)
\* an object schema with a property that is itself named $ref
PropertyNamedRef == O(<< <<"properties", O(<< <<"$ref", Leaf>> >>)>> >>)
\* an undefined reference whose sibling holds a defined one
NestedInSibling == O(<< <<"$ref", Str(RefPath("Missing"))>>,
                        <<"example", RefNode(RefPath("A"))>> >>)

Bodies ==
    {Leaf, Null, PropertyNamedRef, NestedInSibling,
     AllOf(RefPath("A"), RefPath("B"))}
    \cup {RefWithSibling(p) : p \in Targets}
    \cup {Linked(p) : p \in Targets}
    \cup {AllOf(p, p) : p \in Targets}

Document(paths, components) ==
    O(<< <<"openapi", Str("3.0.1")>>, <<"paths", paths>>,
         <<"components", components>> >>)

UserPaths(schema) == O(<< <<"/user", O(<< <<"put", schema>> >>)>> >>)

ExtraBodies == {Leaf, Linked(RefPath("A"))}

\* components.schemas with every name given a body
SchemasOf(a, b, g) ==
    O(<< <<"A", a>>, <<"B", b>> >> \o [i \in 1..NumExtra |-> <<ExtraSeq[i], g[i]>>])

GeneratedDocs ==
    {Document(UserPaths(RefNode(RefPath("A"))),
              O(<< <<"schemas", SchemasOf(a, b, g)>> >>)) :
        a \in Bodies, b \in Bodies, g \in [1..NumExtra -> ExtraBodies]}
    \cup
    {Document(UserPaths(RefNode(RefPath("B"))),
              O(<< <<"schemas", O(<< <<"A", a>> >>)>> >>)) : a \in Bodies}

\* the circular document of the resolver's test
CircularSpec ==
    Document(O(<<>>),
             O(<< <<"schemas", O(<< <<"Node", Linked(RefPath("Node"))>> >>)>> >>))

\* the `dereferences $ref in paths` document of the resolver's test
UserEditSpec ==
    O(<< <<"openapi", Str("3.0.1")>>,
         <<"info", O(<< <<"title", Str("Test")>>, <<"version", Str("v0")>> >>)>>,
         <<"paths", O(<< <<"/user", O(<< <<"put", O(<< <<"requestBody",
              O(<< <<"content", O(<< <<"application/json",
                 O(<< <<"schema", RefNode(RefPath("UserEditDTO"))>> >>)>> >>)>> >>)>>
              >>)>> >>)>> >>)>>,
         <<"components", O(<< <<"schemas", O(<< <<"UserEditDTO",
              O(<< <<"type", Str("object")>>,
                   <<"properties", O(<< <<"name", Leaf>> >>)>> >>)>> >>)>> >>)>> >>)

\* documents at the edge of what collectRefs accepts
EdgeDocs ==
    {Undefined, Null,
     O(<< <<"openapi", Str("3.0.1")>>, <<"paths", O(<<>>)>> >>),
     Document(O(<<>>), Null),
     Document(O(<<>>), O(<<>>)),
     Document(O(<<>>), O(<< <<"schemas", Str("none")>> >>)),
     Document(O(<<>>), O(<< <<"schemas", Null>> >>)),
     Document(O(<<>>), O(<< <<"schemas", Ar(<<Leaf, RefNode("#/components/schemas/0")>>)>> >>)),
     Document(UserPaths(RefNode("#/components/parameters/X")),
              O(<< <<"parameters", O(<< <<"X", Leaf>> >>)>> >>)),
     Document(UserPaths(RefNode("#/components/parameters/X")),
              O(<< <<"schemas", O(<< <<"A", Leaf>> >>)>>,
                   <<"parameters", O(<< <<"X", Leaf>> >>)>> >>)),
     \* a named schema that is a bare string, and a $ref key that holds a
     \* reference to it
     Document(UserPaths(O(<< <<"$ref", RefNode(RefPath("S"))>> >>)),
              O(<< <<"schemas", O(<< <<"S", Str(RefPath("T"))>>,
                                     <<"T", Leaf>> >>)>> >>)),
     \* components.schemas is itself a reference
     Document(UserPaths(RefNode(RefPath("type"))),
              O(<< <<"schemas", O(<< <<"$ref", Str(RefPath("A"))>>,
                                     <<"A", Leaf>> >>)>> >>))}

\* two sibling properties and two array elements that hold the same reference
Siblings(p) ==
    O(<< <<"properties", O(<< <<"a", RefNode(p)>>, <<"b", RefNode(p)>> >>)>>,
         <<"allOf", Ar(<<RefNode(p), RefNode(p)>>)>> >>)

SiblingDocs ==
    {Document(UserPaths(Siblings(RefPath("A"))),
              O(<< <<"schemas", O(<< <<"A", a>>, <<"B", b>> >>)>> >>)) :
        a \in {Leaf, Linked(RefPath("B")), Linked(RefPath("A"))},
        b \in {Leaf, Linked(RefPath("A"))}}

\* reference paths that name no entry of components.schemas: other component
\* categories, another file, a remote document
ForeignRefs ==
    {"#/components/parameters/X", "#/components/responses/Y",
     "other.yaml#/components/schemas/A",
     "https://example.com/api.yaml#/components/schemas/A"}

\* an operation that refers to a parameter, a response and a named schema, in
\* a document that defines all three
ForeignRefSpec ==
    Document(
        UserPaths(O(<<
            <<"parameters", Ar(<<RefNode("#/components/parameters/X")>>)>>,
            <<"responses", O(<< <<"200", RefNode("#/components/responses/Y")>> >>)>>,
            <<"schema", RefNode(RefPath("A"))>> >>)),
        O(<< <<"schemas", O(<< <<"A", Leaf>>, <<"X", Leaf>> >>)>>,
             <<"parameters", O(<< <<"X", Leaf>> >>)>>,
             <<"responses", O(<< <<"Y", Leaf>> >>)>> >>))

\* an operation that refers to schemas of other documents
ExternalRefSpec ==
    Document(
        UserPaths(O(<<
            <<"a", RefNode("other.yaml#/components/schemas/A")>>,
            <<"b", RefNode("https://example.com/api.yaml#/components/schemas/A")>> >>)),
        O(<< <<"schemas", O(<< <<"A", Leaf>> >>)>> >>))

Docs ==
    GeneratedDocs \cup EdgeDocs \cup SiblingDocs
        \cup {CircularSpec, UserEditSpec, ForeignRefSpec, ExternalRefSpec}

\* the values simplifySchema is called on: schema: any
\* an optional key: absent, or present with one of the values
Opt(key, vals) == {<<>>} \cup {<< <<key, v>> >> : v \in vals}

EnumValues ==
    {Ar(<<Str("a"), Str("b")>>), Ar(<<>>), Ar(<<Num(1), Null, Bool(TRUE)>>),
     Ar(<<O(<< <<"k", Num(10)>> >>), Ar(<<Num(-2)>>)>>),
     Null, Str("abc"), Num(5), O(<<>>)}

FormatValues == {Str("uuid"), Str("")}

StringNodes ==
    {O(<< <<"type", Str("string")>> >> \o e \o f) :
        e \in Opt("enum", EnumValues), f \in Opt("format", FormatValues)}

TypedNode(t) == O(<< <<"type", Str(t)>> >>)
Uuid == O(<< <<"type", Str("string")>>, <<"format", Str("uuid")>> >>)
EnumAB == O(<< <<"type", Str("string")>>, <<"enum", Ar(<<Str("a"), Str("b")>>)>>,
               <<"format", Str("uuid")>> >>)
\* a string schema whose enum is a string, not a list
EnumNoList == O(<< <<"type", Str("string")>>, <<"enum", Str("abc")>> >>)
Described == O(<< <<"description", Str("d")>> >>)

PlainNodes ==
    {TypedNode("number"), TypedNode("integer"), TypedNode("boolean"),
     TypedNode("null"), TypedNode("object"), Described, O(<<>>),
     O(<< <<"type", Num(0)>> >>), O(<< <<"type", Ar(<<Str("string"), Str("null")>>)>> >>),
     O(<< <<"type", Str("integer")>>, <<"enum", Ar(<<Num(1), Num(2)>>)>>,
          <<"format", Str("int32")>> >>)}

\* nodes that carry a $ref key
SimplifyRefNodes ==
    {RefNode(RefPath("A")),
     O(<< <<"$ref", Str(RefPath("A"))>>, <<"type", Str("string")>>,
          <<"enum", Ar(<<Str("a")>>)>> >>),
     O(<< <<"type", Str("object")>>,
          <<"properties", O(<< <<"name", Leaf>> >>)>>,
          <<"$ref", Str(RefPath("A"))>> >>),
     O(<< <<"type", Str("array")>>, <<"items", Leaf>>,
          <<"$ref", Str("#/components/parameters/X")>> >>),
     O(<< <<"$ref", Str(RefPath("A"))>>, <<"_circular", Bool(TRUE)>> >>),
     O(<< <<"$ref", Str(RefPath("A"))>>, <<"type", Str("string")>>,
          <<"enum", Str("abc")>> >>),
     O(<< <<"$ref", O(<< <<"x", Num(1)>> >>)>>, <<"type", Str("string")>> >>),
     O(<< <<"$ref", Str("")>>, <<"type", Str("string")>> >>),
     O(<< <<"$ref", Null>>, <<"type", Str("array")>> >>)}

ArraySchema(items) == O(<< <<"type", Str("array")>>, <<"items", items>> >>)
ObjectSchema(properties) ==
    O(<< <<"type", Str("object")>>, <<"required", Ar(<<Str("name")>>)>>,
         <<"properties", properties>>, <<"description", Str("d")>>,
         <<"additionalProperties", Bool(FALSE)>> >>)

NameAge == O(<< <<"name", Leaf>>, <<"age", TypedNode("integer")>> >>)

ItemValues ==
    {Leaf, TypedNode("integer"), Uuid, EnumAB, EnumNoList, Described,
     RefNode(RefPath("A")), Null, Str("x"), Num(0), Bool(TRUE),
     TypedNode("array"), ArraySchema(Leaf), ArraySchema(ArraySchema(Uuid)),
     ArraySchema(Described), ObjectSchema(NameAge), ObjectSchema(O(<<>>)),
     Ar(<<Leaf>>)}

ArrayNodes ==
    {TypedNode("array")} \cup {ArraySchema(i) : i \in ItemValues}
    \cup {O(<< <<"items", Leaf>>, <<"type", Str("array")>>, <<"maxItems", Num(3)>> >>)}

PropertyMaps ==
    {O(<<>>), NameAge,
     O(<< <<"id", Uuid>>, <<"tags", ArraySchema(Leaf)>>, <<"kind", EnumAB>> >>),
     O(<< <<"name", EnumNoList>>, <<"age", TypedNode("integer")>> >>),
     O(<< <<"name", Leaf>>, <<"child", ObjectSchema(NameAge)>>,
          <<"link", RefNode(RefPath("A"))>> >>),
     O(<< <<"name", Null>>, <<"age", Str("x")>> >>),
     Ar(<<Leaf, TypedNode("integer")>>),
     Num(1), Bool(TRUE), Null}

ObjectNodes ==
    {ObjectSchema(p) : p \in PropertyMaps}
    \cup {O(<< <<"properties", NameAge>>, <<"type", Str("object")>> >>),
          O(<< <<"properties", NameAge>> >>)}

SimplifyInputs ==
    {Null, Undefined, Str("x"), Str(""), Num(0), Num(7), Bool(FALSE), Bool(TRUE),
     Ar(<<>>), Ar(<<Leaf, Uuid>>)}
    \cup StringNodes \cup PlainNodes \cup SimplifyRefNodes \cup ArrayNodes
    \cup ObjectNodes

Loaded(d) == Load(<<>>, d)

\* the schema arguments a direct dereferenceSchema call is given: every named
\* schema, the paths object, and the document itself
Args(d) ==
    LET L == Loaded(d)
        m == collectRefs(L.h, L.v).map
    IN  {m[i][2] : i \in 1..Len(m)} \cup {Get(L.h, L.v, "paths"), L.v}

Ops ==
    {"collectRefs", "dereferenceSchema", "dereferenceAllSchemas", "dereferenceSpec",
     "simplifySchema"}

Init ==
    /\ op \in Ops
    /\ doc \in (IF op = "simplifySchema" THEN SimplifyInputs ELSE Docs)
    /\ heap = Loaded(doc).h
    /\ heap0 = heap
    /\ spec = Loaded(doc).v
    /\ IF op = "dereferenceSchema"
       THEN /\ ~collectRefs(heap, spec).threw
            /\ refMap = collectRefs(heap, spec).map
            /\ arg \in Args(doc)
       ELSE /\ refMap = <<>>
            /\ arg = Undefined
    /\ visited = {}
    /\ stack = <<>>
    /\ mode = "idle"
    /\ cur = Undefined
    /\ pc = "start"
    /\ out = 0
    /\ resolved = <<>>
    /\ result = Undefined
    /\ history = <<>>

Next ==
    \/ DerefPrimitive
    \/ DerefCircular
    \/ DerefUnresolved
    \/ DerefResolve
    \/ DerefResolveReturn
    \/ DerefArray
    \/ DerefArrayNext
    \/ DerefObject
    \/ DerefObjectNext
    \/ CallCollectRefs
    \/ CallDereferenceSchema
    \/ ReturnDereferenceSchema
    \/ AllStart
    \/ AllNext
    \/ SpecStart
    \/ SpecPaths
    \/ SpecComponents
    \/ SpecAgain
    \/ CallSimplifySchema

Spec == Init /\ [][Next]_vars

\* the resolver is synchronous: a call that can take a step takes it
\* (simplifySchema is one step of its own and is given no fairness)
FairSpec == Spec /\ WF_vars(op # "simplifySchema" /\ Next)

----------------------------------------------------------------------------
(* Vocabulary of the properties *)

Returned == pc = "returned"
Threw == pc = "threw"

\* the string a reference node holds
RefOf(h, v) == Get(h, v, "$ref").s

\* v is an object whose $ref is a string
IsRefNode(h, v) ==
    /\ v.t = "ptr"
    /\ h[v.a].k = "object"
    /\ Lookup(h[v.a].e, "$ref").t = "string"

Children(h, v) ==
    LET es == ObjectEntries(h, v) IN {es[i][2] : i \in 1..Len(es)}

RECURSIVE RefKeyed(_, _)
\* every object at any depth under v that has a key named $ref
RefKeyed(h, v) ==
    IF v.t # "ptr" THEN {}
    ELSE (IF h[v.a].k = "object" /\ HasKey(h[v.a].e, "$ref") THEN {v} ELSE {})
         \cup UNION {RefKeyed(h, c) : c \in Children(h, v)}

RECURSIVE SurvivingRefs(_, _)
\* the reference nodes (string $ref) under v that lie inside no other
\* reference node
SurvivingRefs(h, v) ==
    IF v.t # "ptr" THEN {}
    ELSE IF IsRefNode(h, v) THEN {v}
    ELSE UNION {SurvivingRefs(h, c) : c \in Children(h, v)}

\* exactly { $ref: <path>, _circular: true }
IsPlaceholder(h, v) ==
    /\ IsRefNode(h, v)
    /\ h[v.a] = ObjCell(<< <<"$ref", Str(RefOf(h, v))>>, <<"_circular", Bool(TRUE)>> >>)

\* the reference map of the document the run started from
DocMap == collectRefs(Loaded(doc).h, Loaded(doc).v).map

MapKeys(m) == {m[i][1] : i \in 1..Len(m)}

\* the paths the schema named p refers to when it is expanded
RefEdges(p) ==
    {RefOf(Loaded(doc).h, n) : n \in SurvivingRefs(Loaded(doc).h, MapGet(DocMap, p))}

RECURSIVE ReachableFrom(_)
ReachableFrom(S) ==
    LET T == S \cup UNION {RefEdges(p) : p \in S \cap MapKeys(DocMap)}
    IN  IF T = S THEN S ELSE ReachableFrom(T)

\* no entry of reference map m is a bare string
NoStringEntry(m) == \A i \in 1..Len(m) : m[i][2].t # "string"

\* some $ref chain of components.schemas leads back to a schema being expanded
CyclicDoc == \E p \in MapKeys(DocMap) : p \in ReachableFrom(RefEdges(p))
AcyclicDoc == ~CyclicDoc

----------------------------------------------------------------------------
(* C1: a direct call dereferenceSchema(node, refMap), started with an empty *)
(* visited set, terminates and returns a value, also when the schemas of    *)
(* the map refer to themselves or to each other.                            *)
C1_Terminates == (op = "dereferenceSchema") ~> Returned

\* a call on a map with a cycle through two schemas has returned
C1_Witness ==
    /\ op = "dereferenceSchema"
    /\ Returned
    /\ RefPath("B") \in RefEdges(RefPath("A"))
    /\ RefPath("A") \in RefEdges(RefPath("B"))
    /\ \E n \in RefKeyed(heap, result) : IsPlaceholder(heap, n)

(* C2: for Node = {type: object, properties: {next: {$ref: Node}}},         *)
(* dereferenceSchema(Node, index) expands properties.next once into a copy  *)
(* of Node, and properties.next.properties.next is exactly the placeholder  *)
(* {$ref: '#/components/schemas/Node', _circular: true}.                    *)
NodeCall ==
    /\ doc = CircularSpec
    /\ op = "dereferenceSchema"
    /\ arg = MapGet(refMap, RefPath("Node"))

NodeExpanded(next) ==
    O(<< <<"type", Str("object")>>, <<"properties", O(<< <<"next", next>> >>)>> >>)

C2_NodeExpandsOnce ==
    (NodeCall /\ Returned) =>
        Value(heap, result) =
            NodeExpanded(NodeExpanded(
                O(<< <<"$ref", Str(RefPath("Node"))>>, <<"_circular", Bool(TRUE)>> >>)))

C2_Witness == NodeCall /\ Returned

----------------------------------------------------------------------------
\* the first dereferenceSpec pass over an acyclic document has returned
AcyclicPassDone ==
    /\ op = "dereferenceSpec"
    /\ Returned
    /\ Len(history) = 1
    /\ AcyclicDoc
    /\ NoStringEntry(DocMap)

OutPaths == Get(heap, result, "paths")
OutComponents == Get(heap, result, "components")

\* the path of reference node n has no usable entry in the reference map
Unresolvable(n) == ~Truthy(MapGet(refMap, RefOf(heap, n)))

(* C3 as stated: for every acyclic document D the paths and components     *)
(* subtrees of dereferenceSpec(D) contain no object key named $ref at any   *)
(* depth.                                                                   *)
C3_NoRefKeyInAcyclic ==
    AcyclicPassDone =>
        RefKeyed(heap, OutPaths) \cup RefKeyed(heap, OutComponents) = {}

(* C3 amended: for every acyclic document D none of whose named schemas is  *)
(* a bare string, every reference node (string $ref) in the paths and       *)
(* components subtrees of dereferenceSpec(D) that lies inside no other      *)
(* reference node names a path with no truthy entry in the reference map:   *)
(* it is a reference the resolver left as it was.  There is no circular     *)
(* placeholder and no surviving reference to a defined schema.              *)
C3_OnlyUnresolvedRefsInAcyclic ==
    AcyclicPassDone =>
        \A n \in SurvivingRefs(heap, OutPaths) \cup SurvivingRefs(heap, OutComponents) :
            Unresolvable(n)

\* an acyclic document with a reference that resolved and one that did not
C3_Witness ==
    /\ AcyclicPassDone
    /\ SurvivingRefs(heap, OutComponents) # {}
    /\ \E n \in SurvivingRefs(heap0, Get(heap0, spec, "paths")) :
          Truthy(MapGet(refMap, RefOf(heap0, n)))

DerefReturned == op \in {"dereferenceSpec", "dereferenceSchema"} /\ Returned

C5_InputNeverMutated ==
    /\ Len(heap) >= Len(heap0)
    /\ SubSeq(heap, 1, Len(heap0)) = heap0

\* a second dereferenceSpec pass has returned, having built new objects
C5_Witness ==
    /\ op = "dereferenceSpec"
    /\ Returned
    /\ Len(history) = 2
    /\ Len(heap) > Len(heap0) + 3

\* two dereferenceSpec passes over an acyclic document have returned
TwoPassesDone ==
    /\ op = "dereferenceSpec"
    /\ Len(history) = 2
    /\ AcyclicDoc

(* C6 as stated: for every acyclic document D,                              *)
(* dereferenceSpec(dereferenceSpec(D)) is structurally identical to         *)
(* dereferenceSpec(D).                                                      *)
C6_Idempotent ==
    TwoPassesDone => Value(heap, history[2]) = Value(heap, history[1])

DocComponents == Get(Loaded(doc).h, Loaded(doc).v, "components")
DocSchemas == Get(Loaded(doc).h, DocComponents, "schemas")

\* neither components nor components.schemas is itself a reference node, and
\* no named schema is a bare string
PlainComponents ==
    /\ NoStringEntry(DocMap)
    /\ ~IsRefNode(Loaded(doc).h, DocComponents)
    /\ ~IsRefNode(Loaded(doc).h, DocSchemas)

(* C6 amended: for every acyclic document D in which neither components nor *)
(* components.schemas is itself a reference node (carries a string $ref)    *)
(* and no named schema is a bare string, dereferenceSpec(dereferenceSpec(D)) *)
(* is structurally identical to dereferenceSpec(D).                         *)
C6_IdempotentOnPlainComponents ==
    (TwoPassesDone /\ PlainComponents) =>
        Value(heap, history[2]) = Value(heap, history[1])

\* two passes over a document in which the first pass resolved a reference
C6_Witness ==
    /\ TwoPassesDone
    /\ PlainComponents
    /\ \E n \in SurvivingRefs(Loaded(doc).h, Loaded(doc).v) :
          Truthy(MapGet(DocMap, RefOf(Loaded(doc).h, n)))

----------------------------------------------------------------------------
\* collectRefs(spec), called directly, has returned
CollectReturned == op = "collectRefs" /\ Returned

SpecComponentsNow == Get(heap, spec, "components")
SpecSchemas == Get(heap, SpecComponentsNow, "schemas")

(* C7: for a document whose components.schemas is an object with n named    *)
(* entries, collectRefs returns a map with exactly n entries, one per name  *)
(* N keyed '#/components/schemas/N', each value the very same node as        *)
(* components.schemas[N]; no other component category contributes an entry. *)
C7_IndexExact ==
    (CollectReturned /\ SpecSchemas.t = "ptr" /\ heap[SpecSchemas.a].k = "object") =>
        LET es == heap[SpecSchemas.a].e IN
        /\ Len(resolved) = Len(es)
        /\ MapKeys(resolved) = {"#/components/schemas/" \o es[i][1] : i \in 1..Len(es)}
        /\ \A i \in 1..Len(es) :
              MapGet(resolved, "#/components/schemas/" \o es[i][1])
                  = Get(heap, SpecSchemas, es[i][1])

\* two named schemas were indexed, each entry the schema object itself
C7_Witness ==
    /\ CollectReturned
    /\ Len(resolved) = 2
    /\ resolved[1][2].t = "ptr"
    /\ resolved[1][2] = Get(heap, SpecSchemas, "A")

\* the document is undefined, or has no components, or its components.schemas
\* is absent or not an object
NoUsableSchemas ==
    \/ spec.t = "undefined"
    \/ spec.t = "ptr" /\ SpecComponentsNow.t # "ptr"
    \/ spec.t = "ptr" /\ SpecSchemas.t # "ptr"

RefCallReturned ==
    /\ mode = "ret"
    /\ stack # <<>>
    /\ IsRefNode(heap, Top.schema)

(* C9: dereferencing a $ref node whose path is not a key of the reference   *)
(* map (and not in visited) raises no error and returns a new object that   *)
(* is a shallow copy of the node: same keys in the same order, $ref with    *)
(* the same path, each value the original's value itself.                   *)
C9_UnresolvedIsShallowCopy ==
    (/\ RefCallReturned
     /\ RefOf(heap, Top.schema) \notin MapKeys(refMap)
     /\ RefOf(heap, Top.schema) \notin Top.v0) =>
        /\ cur.t = "ptr"
        /\ cur.a = Len(heap)
        /\ cur.a > Top.schema.a
        /\ heap[cur.a] = heap[Top.schema.a]
        /\ visited = Top.v0

\* an undefined reference with an object-valued sibling has been copied
C9_Witness ==
    /\ RefCallReturned
    /\ RefOf(heap, Top.schema) \notin MapKeys(refMap)
    /\ Len(heap[cur.a].e) = 2
    /\ heap[cur.a].e[2][2].t = "ptr"

(* C10 as stated: for every $ref node whose path is a key of the reference  *)
(* map and is not in visited, dereferenceSchema returns the recursive       *)
(* dereferencing of the mapped target under visited plus that path,         *)
(* whatever the target value is (so a primitive target is returned as it    *)
(* is), and no sibling key of $ref is carried into the result.              *)
C10_ResolvesWhateverTarget ==
    (/\ RefCallReturned
     /\ RefOf(heap, Top.schema) \in MapKeys(refMap)
     /\ RefOf(heap, Top.schema) \notin Top.v0) =>
        /\ Top.at = "ref"
        /\ MapGet(refMap, RefOf(heap, Top.schema)).t # "ptr" =>
              cur = MapGet(refMap, RefOf(heap, Top.schema))

----------------------------------------------------------------------------
\* the innermost activation, entered on a reference node, has just returned a
\* placeholder it built itself
PlaceholderEmitted ==
    /\ RefCallReturned
    /\ Top.at = "entry"
    /\ cur = Ptr(Len(heap))
    /\ IsPlaceholder(heap, cur)

\* an activation below the innermost one is expanding reference path p
Expanding(p) ==
    \E j \in 1..(Len(stack) - 1) : stack[j].at = "ref" /\ stack[j].ref = p

\* the innermost call has returned into an object or array activation that has
\* already stored the result of the entry before it
SecondSibling ==
    /\ mode = "ret"
    /\ Len(stack) >= 2
    /\ Parent.at \in {"object", "array"}
    /\ Parent.i >= 2

PrevInput == ObjectEntries(heap, Parent.schema)[Parent.i - 1][2]
PrevResult == ObjectEntries(heap, Parent.result)[Parent.i - 1][2]

\* ... and both entries are reference nodes with the same path
SameRefSiblings ==
    /\ SecondSibling
    /\ IsRefNode(heap, PrevInput)
    /\ IsRefNode(heap, Top.schema)
    /\ RefOf(heap, PrevInput) = RefOf(heap, Top.schema)

\* a call on the reference map of an acyclic document
AcyclicRun == AcyclicDoc /\ history = <<>> /\ refMap = DocMap

(* C11: a circular placeholder is emitted for a $ref only when an ancestor  *)
(* activation on the current recursion path is expanding the same path.     *)
(* Two sibling properties or two array elements that hold the same defined  *)
(* reference (or are equal nodes) get structurally equal results; when the  *)
(* schemas are acyclic and the path is defined, both are expanded and       *)
(* neither is a placeholder.                                                *)
C11_CycleDetectionIsPathScoped ==
    /\ PlaceholderEmitted => Expanding(RefOf(heap, Top.schema))
    /\ SameRefSiblings =>
          /\ (\/ Truthy(MapGet(refMap, RefOf(heap, Top.schema)))
              \/ Value(heap, PrevInput) = Value(heap, Top.schema)) =>
                Value(heap, cur) = Value(heap, PrevResult)
          /\ (AcyclicRun /\ Truthy(MapGet(refMap, RefOf(heap, Top.schema)))) =>
                /\ Top.at = "ref"
                /\ ~IsPlaceholder(heap, cur)
                /\ ~IsPlaceholder(heap, PrevResult)
                /\ \A n \in SurvivingRefs(heap, cur) : Unresolvable(n)

\* the second of two sibling properties referencing the same acyclic schema,
\* itself an object with a reference inside, has been expanded
C11_Witness ==
    /\ SameRefSiblings
    /\ AcyclicRun
    /\ Parent.at = "object"
    /\ Top.at = "ref"
    /\ Value(heap, cur) = NodeExpanded(Leaf)

----------------------------------------------------------------------------
(* dereferenceSchema as a function of trees: what a call returns, read      *)
(* structurally, when visited is handed down by value                       *)

\* a Map whose values are trees
TreeMap(h, m) == MapValue(h, m)

RECURSIVE DerefTree(_, _, _)
DerefTree(tr, mt, vis) ==
    IF tr.t \notin {"object", "array"} THEN tr
    ELSE IF tr.t = "object" /\ Lookup(tr.e, "$ref").t = "string"
    THEN LET ref == Lookup(tr.e, "$ref").s IN
         IF ref \in vis
         THEN O(<< <<"$ref", Str(ref)>>, <<"_circular", Bool(TRUE)>> >>)
         ELSE IF ~Truthy(MapGet(mt, ref)) THEN tr
         ELSE DerefTree(MapGet(mt, ref), mt, vis \cup {ref})
    ELSE IF tr.t = "array"
    THEN Ar([i \in 1..Len(tr.items) |-> DerefTree(tr.items[i], mt, vis)])
    ELSE O([i \in 1..Len(tr.e) |-> <<tr.e[i][1], DerefTree(tr.e[i][2], mt, vis)>>])

\* the entries of a tree: own properties of an object, indexed elements of an array
TreeEntries(tr) ==
    IF tr.t = "object" THEN tr.e
    ELSE IF tr.t = "array" THEN [i \in 1..Len(tr.items) |-> <<IndexKeys[i], tr.items[i]>>]
    ELSE <<>>

RECURSIVE TreeAt(_, _)
\* the node of tree tr at key path pos
TreeAt(tr, pos) ==
    IF pos = <<>> THEN tr
    ELSE TreeAt(Lookup(TreeEntries(tr), Head(pos)), Tail(pos))

RECURSIVE Positions(_)
\* the key paths of all nodes of tree tr
Positions(tr) ==
    {<<>>} \cup UNION {{<<TreeEntries(tr)[i][1]>> \o q : q \in Positions(TreeEntries(tr)[i][2])} :
                        i \in 1..Len(TreeEntries(tr))}

DocPaths == IF doc.t = "object" THEN Lookup(doc.e, "paths") ELSE Undefined
DocMapTree == TreeMap(Loaded(doc).h, DocMap)

\* the positions under paths that hold exactly {$ref: '#/components/schemas/N'}
\* for a name N of components.schemas
DefinedRefPositions ==
    {pos \in Positions(DocPaths) :
        \E k \in MapKeys(DocMap) : TreeAt(DocPaths, pos) = RefNode(k)}

\* the first dereferenceSpec pass has returned
FirstPassDone == op = "dereferenceSpec" /\ Returned /\ Len(history) = 1

(* C12 as stated: for every document D in which a node at any depth under   *)
(* paths is {$ref: '#/components/schemas/N'} and N is defined in            *)
(* components.schemas, the node at the same position in                     *)
(* dereferenceSpec(D).paths is structurally equal to the dereferenced       *)
(* schema N, dereferenceSchema(components.schemas[N], index).               *)
C12_PathRefsBecomeSchemas ==
    FirstPassDone =>
        \A pos \in DefinedRefPositions :
            TreeAt(Value(heap, OutPaths), pos)
                = DerefTree(MapGet(DocMapTree, TreeAt(DocPaths, pos).e[1][2].s),
                            DocMapTree, {})

----------------------------------------------------------------------------
AllReturned == op = "dereferenceAllSchemas" /\ Returned

(* C13: dereferenceAllSchemas(D) returns a map with the keys of             *)
(* collectRefs(D), in the same order, and the value under each key k is     *)
(* dereferenceSchema(collectRefs(D)[k], collectRefs(D)) computed with a     *)
(* fresh empty visited set, whichever entries were resolved before it.      *)
C13_AllSchemasEntrywise ==
    AllReturned =>
        MapValue(heap, resolved)
            = [i \in 1..Len(DocMap) |->
                  <<DocMap[i][1], DerefTree(DocMapTree[i][2], DocMapTree, {})>>]

\* the second entry refers to the first one and holds its expansion
C13_Witness ==
    /\ AllReturned
    /\ Len(resolved) = 2
    /\ Value(heap, MapGet(DocMap, RefPath("B"))) = Linked(RefPath("A"))
    /\ Value(heap, resolved[1][2]) = Leaf
    /\ Value(heap, resolved[2][2]) = NodeExpanded(Leaf)

----------------------------------------------------------------------------
\* a dereferenceSpec pass has returned
SpecReturned == op = "dereferenceSpec" /\ Returned

InPaths == Get(heap, spec, "paths")
InComponents == Get(heap, spec, "components")

(* C14: dereferenceSpec(D) returns a new object with the keys of D plus     *)
(* paths and components; every key of D other than paths and components     *)
(* keeps its place and holds the identical value; paths is the              *)
(* dereferencing of D.paths; components is the dereferencing of             *)
(* D.components when D has (truthy) components and undefined otherwise.     *)
C14_OnlyPathsAndComponentsReplaced ==
    SpecReturned =>
        LET e0 == heap[spec.a].e
            e1 == heap[result.a].e
            mt == TreeMap(heap, refMap)
        IN  /\ result.a > Len(heap0)
            /\ [i \in 1..Len(e1) |-> e1[i][1]]
                 = LET e == SetEntry(SetEntry(e0, "paths", Undefined),
                                     "components", Undefined)
                   IN  [i \in 1..Len(e) |-> e[i][1]]
            /\ \A i \in 1..Len(e0) :
                  e0[i][1] \notin {"paths", "components"} => e1[i] = e0[i]
            /\ Value(heap, OutPaths) = DerefTree(Value(heap, InPaths), mt, {})
            /\ Value(heap, OutComponents)
                 = IF Truthy(InComponents)
                   THEN DerefTree(Value(heap, InComponents), mt, {})
                   ELSE Undefined

\* the test's document has passed: info is the same object, the request body
\* schema is resolved
C14_Witness ==
    /\ SpecReturned
    /\ doc = UserEditSpec
    /\ Len(history) = 1
    /\ Get(heap, result, "info").t = "ptr"
    /\ Get(heap, result, "info") = Get(heap, spec, "info")
    /\ OutPaths # InPaths

----------------------------------------------------------------------------
\* tree tr is an object whose $ref is a string
IsRefTree(tr) == tr.t = "object" /\ Lookup(tr.e, "$ref").t = "string"

\* the positions of tree tr that lie inside no reference node
RECURSIVE OpenPositions(_)
OpenPositions(tr) ==
    IF IsRefTree(tr) THEN {<<>>}
    ELSE {<<>>} \cup UNION {{<<TreeEntries(tr)[i][1]>> \o q :
                                q \in OpenPositions(TreeEntries(tr)[i][2])} :
                            i \in 1..Len(TreeEntries(tr))}

(* C15: a reference to anything other than a named entry of                 *)
(* components.schemas (a parameter, a response, another document) is never  *)
(* a key of the reference map and never enters visited; dereferencing it    *)
(* returns a copy of the node with its $ref, and in dereferenceSpec(D) the  *)
(* node stays where it was under paths, also when D defines the parameter   *)
(* or response it names.                                                    *)
C15_ForeignRefsStayUnresolved ==
    /\ \A p \in ForeignRefs :
          /\ p \notin MapKeys(refMap)
          /\ p \notin MapKeys(resolved)
          /\ p \notin visited
    /\ (RefCallReturned /\ RefOf(heap, Top.schema) \in ForeignRefs) =>
          /\ Top.at = "entry"
          /\ cur = Ptr(Len(heap))
          /\ heap[cur.a] = heap[Top.schema.a]
    /\ SpecReturned =>
          LET tin == Value(heap, InPaths)
              tout == Value(heap, OutPaths)
          IN  \A pos \in OpenPositions(tin) :
                  (IsRefTree(TreeAt(tin, pos))
                      /\ Lookup(TreeAt(tin, pos).e, "$ref").s \in ForeignRefs) =>
                      TreeAt(tout, pos) = TreeAt(tin, pos)

\* the document defines parameter X and response Y; the references to them
\* are still references in the result, the schema reference is resolved
C15_Witness ==
    /\ SpecReturned
    /\ doc = ForeignRefSpec
    /\ Len(history) = 1
    /\ Get(heap, Get(heap, InComponents, "parameters"), "X").t = "ptr"
    /\ TreeAt(Value(heap, OutPaths), <<"/user", "put", "parameters", "0">>)
         = RefNode("#/components/parameters/X")
    /\ TreeAt(Value(heap, OutPaths), <<"/user", "put", "responses", "200">>)
         = RefNode("#/components/responses/Y")
    /\ TreeAt(Value(heap, OutPaths), <<"/user", "put", "schema">>) = Leaf

----------------------------------------------------------------------------
\* some activation of dereferenceSchema has just returned
CallReturned == mode = "ret" /\ stack # <<>>

(* C16: dereferencing is deterministic: the tree a call returns is a        *)
(* function of the structure of its node, the structure of the reference    *)
(* map and the members of visited alone, so two calls with structurally     *)
(* equal arguments return structurally equal trees, whatever was called     *)
(* before and wherever the objects lie.                                     *)
C16_Deterministic ==
    CallReturned =>
        Value(heap, cur)
            = DerefTree(Value(heap, Top.schema), TreeMap(heap, refMap), Top.v0)

\* dereferenceAllSchemas has dereferenced two distinct but structurally equal
\* schemas that refer to each other, and got structurally equal trees
C16_Witness ==
    /\ op = "dereferenceAllSchemas"
    /\ pc = "loop"
    /\ ReturnedToTop
    /\ out = 2
    /\ Top.schema # refMap[1][2]
    /\ Value(heap, Top.schema) = AllOf(RefPath("A"), RefPath("B"))
    /\ Value(heap, Top.schema) = Value(heap, refMap[1][2])
    /\ cur # resolved[1][2]
    /\ Value(heap, cur) = Value(heap, resolved[1][2])

----------------------------------------------------------------------------
\* a direct call of simplifySchema has ended, by returning or by throwing
SimplifyEnded == op = "simplifySchema" /\ pc # "start"
SimplifyReturned == op = "simplifySchema" /\ Returned

\* the argument is an object (not an array) without a truthy $ref
PlainSchemaArg ==
    /\ spec.t = "ptr"
    /\ heap[spec.a].k = "object"
    /\ ~Truthy(Get(heap, spec, "$ref"))

ArgType == Get(heap, spec, "type")
ArgEnum == Get(heap, spec, "enum")
ArgFormat == Get(heap, spec, "format")

\* 'enum (' + the JSON-quoted values joined by ', ' + ')'
EnumText(h, list) ==
    "enum ("
        \o JoinStr([i \in 1..Len(h[list.a].items) |->
                       JSONStringify(h, h[list.a].items[i])], ", ")
        \o ")"

(* C17: on a node with type 'string', simplifySchema returns 'enum (' + the *)
(* JSON-quoted values joined by ', ' + ')' when the node has an enum list,  *)
(* whether or not it has a format; else the format verbatim when it has a   *)
(* (non-empty) format; else 'string'.                                       *)
C17_StringEnumThenFormat ==
    (/\ SimplifyEnded
     /\ PlainSchemaArg
     /\ ArgType = Str("string")
     /\ (Truthy(ArgEnum) => IsArray(heap, ArgEnum))) =>
        /\ Returned
        /\ result = IF Truthy(ArgEnum) THEN Str(EnumText(heap, ArgEnum))
                    ELSE IF Truthy(ArgFormat) THEN ArgFormat
                    ELSE Str("string")

\* a string node with both an enum and a format displays the enum
C17_Witness ==
    /\ SimplifyReturned
    /\ Value(heap, spec) = EnumAB
    /\ result = Str("enum (\"a\", \"b\")")

ArgItems == Get(heap, spec, "items")

(* C18: on a node with type 'array', simplifySchema returns 'array of <s>'  *)
(* when its items simplify to a string s, a new object {type: 'array',      *)
(* items: <simplified items>} when they simplify to a value that is no      *)
(* string, and 'array' when the node has no items.                          *)
C18_ArrayOfItems ==
    (SimplifyEnded /\ PlainSchemaArg /\ ArgType = Str("array")) =>
        IF ~Truthy(ArgItems) THEN Returned /\ result = Str("array")
        ELSE LET r == simplifySchema(heap0, ArgItems) IN
             IF r.threw THEN Threw
             ELSE /\ Returned
                  /\ IF r.v.t = "string"
                     THEN result = Str("array of " \o r.v.s)
                     ELSE /\ result.t = "ptr"
                          /\ result.a > Len(heap0)
                          /\ Value(heap, result)
                               = O(<< <<"type", Str("array")>>,
                                      <<"items", Value(r.h, r.v)>> >>)

\* an array of arrays of strings folds into one string
C18_Witness ==
    /\ SimplifyReturned
    /\ Value(heap, spec) = ArraySchema(ArraySchema(Leaf))
    /\ result = Str("array of array of string")

(* C19: simplifySchema never resolves a reference: for a node that carries  *)
(* a (non-empty) $ref, whatever its other keys are, it returns a new object *)
(* with the single key $ref holding that same path; type, enum, properties  *)
(* and items play no part, and nothing is looked up.                        *)
C19_RefIsOnlyMarked ==
    (SimplifyEnded /\ spec.t = "ptr" /\ Truthy(Get(heap, spec, "$ref"))) =>
        /\ Returned
        /\ result = Ptr(Len(heap0) + 1)
        /\ Len(heap) = Len(heap0) + 1
        /\ heap[result.a] = ObjCell(<< <<"$ref", Get(heap, spec, "$ref")>> >>)

\* an object schema with properties and a $ref comes back as the bare marker
C19_Witness ==
    /\ SimplifyReturned
    /\ Get(heap, spec, "type") = Str("object")
    /\ Get(heap, spec, "properties").t = "ptr"
    /\ Value(heap, result) = RefNode(RefPath("A"))

(* C20 as stated: simplifySchema never raises: for every input value (null, *)
(* primitives, arrays, and objects whose type, enum, format, properties or  *)
(* items hold values of any shape) it returns a display value.              *)
C20_NeverRaises == op = "simplifySchema" => ~Threw

----------------------------------------------------------------------------
ArgProperties == Get(heap, spec, "properties")
ArgRequired == Get(heap, spec, "required")

\* the argument is an object schema: type 'object' with a properties object
ObjectSchemaArg ==
    /\ PlainSchemaArg
    /\ ArgType = Str("object")
    /\ ArgProperties.t = "ptr"
    /\ heap[ArgProperties.a].k = "object"

\* the names listed in schema.required
RequiredNames ==
    IF IsArray(heap, ArgRequired)
    THEN {heap[ArgRequired.a].items[i].s :
             i \in {j \in 1..Len(heap[ArgRequired.a].items) :
                       heap[ArgRequired.a].items[j].t = "string"}}
    ELSE {}

OptionalSuffixes == {" (optional)", "(optional)"}

\* entry <<key, val>> of the output shows property `name`, whose schema is
\* displayed as `shown`, with the suffix on its name or on its display string
MarkedOptional(key, val, name, shown) ==
    \E sfx \in OptionalSuffixes :
        \/ key = name \o sfx
        \/ val.t = "string" /\ shown.t = "string" /\ val.s = shown.s \o sfx

(* C21 as stated: in the output of simplifySchema for an object schema, the *)
(* fields that schema.required does not list are marked with an             *)
(* '(optional)' suffix, and the fields it lists are not.                    *)
C21_OptionalFieldsMarked ==
    (SimplifyReturned /\ ObjectSchemaArg /\ result.t = "ptr") =>
        LET ps == heap[ArgProperties.a].e
            rs == ObjectEntries(heap, result)
        IN  /\ Len(rs) = Len(ps)
            /\ \A i \in 1..Len(ps) :
                  (ps[i][1] \notin RequiredNames)
                      <=> MarkedOptional(rs[i][1], rs[i][2], ps[i][1],
                                         simplifySchema(heap0, ps[i][2]).v)

----------------------------------------------------------------------------
\* an activation entered on an array has just returned
ArrayCallReturned == CallReturned /\ IsArray(heap, Top.schema)

(* C22: dereferenceSchema on an array returns a new array of the same       *)
(* length in which element i is the dereferencing of input element i, in    *)
(* the same order; every element is dereferenced under the visited set the  *)
(* array itself was entered with, and that set is back on return.           *)
C22_ArrayElementwise ==
    /\ (stack # <<>> /\ Len(stack) >= 2 /\ Parent.at = "array") =>
          Top.v0 = Parent.v0
    /\ ArrayCallReturned =>
          LET ins == heap[Top.schema.a].items IN
          /\ cur.t = "ptr"
          /\ cur.a > Len(heap0)
          /\ cur # Top.schema
          /\ heap[cur.a].k = "array"
          /\ Len(heap[cur.a].items) = Len(ins)
          /\ \A i \in 1..Len(ins) :
                Value(heap, heap[cur.a].items[i])
                    = DerefTree(Value(heap, ins[i]), TreeMap(heap, refMap), Top.v0)
          /\ visited = Top.v0

\* inside the expansion of A, the array [{$ref: A}, {$ref: B}] has come back
\* as [placeholder of A, expansion of B]
C22_Witness ==
    /\ ArrayCallReturned
    /\ Top.v0 = {RefPath("A")}
    /\ Value(heap, Top.schema) = Ar(<<RefNode(RefPath("A")), RefNode(RefPath("B"))>>)
    /\ IsPlaceholder(heap, heap[cur.a].items[1])
    /\ Value(heap, heap[cur.a].items[2]) = Leaf

----------------------------------------------------------------------------
\* an activation entered on an object that is no array and has no string $ref
\* has just returned
ObjectCallReturned ==
    /\ CallReturned
    /\ Top.schema.t = "ptr"
    /\ ~IsArray(heap, Top.schema)
    /\ ~StringRef(heap, Top.schema)

\* an activation entered on null, undefined or a primitive has just returned
PrimitiveCallReturned == CallReturned /\ Top.schema.t # "ptr"

----------------------------------------------------------------------------
\* the entries of the argument's properties map, and the display of the i-th
PropertyEntries == heap[ArgProperties.a].e
PropertyDisplay(i) == simplifySchema(heap0, PropertyEntries[i][2])

----------------------------------------------------------------------------
RECURSIVE AllNodes(_, _)
\* every object and array reachable from v
AllNodes(h, v) ==
    IF v.t # "ptr" THEN {}
    ELSE {v} \cup UNION {AllNodes(h, c) : c \in Children(h, v)}

RECURSIVE OpenNodes(_, _)
\* the objects and arrays reachable from v without passing through a
\* reference node (the reference nodes themselves included)
OpenNodes(h, v) ==
    IF v.t # "ptr" THEN {}
    ELSE IF IsRefNode(h, v) THEN {v}
    ELSE {v} \cup UNION {OpenNodes(h, c) : c \in Children(h, v)}

\* node n did not exist when the exported function was called
NewNode(n) == n.a > Len(heap0)

(* C25 as stated: the output of dereferenceSchema is a new tree: no object  *)
(* or array reachable in the output is the same node as an object or array  *)
(* of the input tree or of a schema held in the reference map.              *)
C25_OutputSharesNothing ==
    CallReturned => \A n \in AllNodes(heap, cur) : NewNode(n)

(* C25 amended: every object and array of the output that does not lie      *)
(* inside a kept unresolved reference is new; an unresolved reference is    *)
(* kept as a new shallow copy, whose values are the very values the input   *)
(* node holds.                                                              *)
C25_OutputIsNewOutsideUnresolvedRefs ==
    CallReturned =>
        /\ \A n \in OpenNodes(heap, cur) : NewNode(n)
        /\ \A n \in AllNodes(heap, cur) :
              NewNode(n) \/ \E r \in OpenNodes(heap, cur) :
                                /\ IsRefNode(heap, r)
                                /\ ~IsPlaceholder(heap, r)
                                /\ n \in AllNodes(heap, r) \ {r}
                                /\ \E o \in 1..Len(heap0) : heap[r.a] = heap0[o]

\* the outermost call has returned a tree in which a kept unresolved
\* reference holds an object of the input
C25_Witness ==
    /\ ReturnedToTop
    /\ \E r \in OpenNodes(heap, cur) :
          /\ r # cur
          /\ IsRefNode(heap, r)
          /\ NewNode(r)
          /\ \E c \in Children(heap, r) : c.t = "ptr" /\ ~NewNode(c)

----------------------------------------------------------------------------
(* C26: dereferenceSchema leaves the visited set it was given unchanged on  *)
(* return: whenever a call has returned, the set has the members it had     *)
(* when that call was entered, although one mutable set is shared by the    *)
(* whole recursion.                                                         *)
C26_VisitedRestored == CallReturned => visited = Top.v0

\* a call on a reference, entered while another path was being expanded, has
\* expanded its target and returned
C26_Witness ==
    /\ CallReturned
    /\ Top.at = "ref"
    /\ Top.v0 # {}
    /\ Top.ref \notin Top.v0
    /\ visited = Top.v0

----------------------------------------------------------------------------
\* the activations that are expanding, or have just expanded, a reference
ExpansionFrames == {j \in 1..Len(stack) : stack[j].at = "ref"}

(* C27: during a dereferenceSchema call started with an empty visited set,  *)
(* visited is exactly the set of reference paths whose expansion is in      *)
(* progress on the recursion stack; the paths under expansion are pairwise  *)
(* distinct keys of the reference map, so no path is expanded twice on one  *)
(* path from the root and the expansions never nest deeper than the map has *)
(* entries.                                                                 *)
C27_VisitedIsExpansionPath ==
    stack # <<>> =>
        /\ visited = {stack[j].ref : j \in ExpansionFrames \ {Len(stack)}}
        /\ \A j, k \in ExpansionFrames : j # k => stack[j].ref # stack[k].ref
        /\ \A j \in ExpansionFrames : stack[j].ref \in MapKeys(refMap)
        /\ Cardinality(ExpansionFrames) <= Len(refMap)

\* both schemas of a two-entry map are being expanded, one inside the other,
\* and the reference that closes the cycle has come back as a placeholder
C27_Witness ==
    /\ Len(refMap) = 2
    /\ Cardinality(visited) = 2
    /\ PlaceholderEmitted

----------------------------------------------------------------------------
\* object n has a key named _circular
HasCircularKey(h, n) == h[n.a].k = "object" /\ HasKey(h[n.a].e, "_circular")

\* some object of the document the exported function was called on (the
\* node and the schemas of the reference map lie in it) has a _circular key
InputHasCircularKey == \E n \in AllNodes(heap, spec) : HasCircularKey(heap, n)

(* C28: in the output of a dereferenceSchema call started with an empty     *)
(* visited set on an input without a _circular key, every object with a     *)
(* _circular key is a placeholder {$ref: p, _circular: true} the call       *)
(* created, p is a key of the reference map with a truthy entry, and the    *)
(* placeholder was emitted while an enclosing activation was expanding p;   *)
(* a path without an entry never produces a placeholder.                    *)
C28_PlaceholdersNameExpandedKeys ==
    ~InputHasCircularKey =>
        /\ PlaceholderEmitted =>
              /\ Expanding(RefOf(heap, cur))
              /\ RefOf(heap, cur) = RefOf(heap, Top.schema)
        /\ CallReturned =>
              \A n \in AllNodes(heap, cur) :
                  HasCircularKey(heap, n) =>
                      /\ IsPlaceholder(heap, n)
                      /\ NewNode(n)
                      /\ RefOf(heap, n) \in MapKeys(refMap)
                      /\ Truthy(MapGet(refMap, RefOf(heap, n)))

\* the outermost call has returned a tree that holds a placeholder for a
\* schema that refers to itself and, elsewhere, a kept reference to a path
\* without an entry
C28_Witness ==
    /\ ReturnedToTop
    /\ ~InputHasCircularKey
    /\ \E n \in AllNodes(heap, cur) : IsPlaceholder(heap, n)
    /\ \E n \in AllNodes(heap, cur) :
          /\ IsRefNode(heap, n)
          /\ ~IsPlaceholder(heap, n)
          /\ RefOf(heap, n) \notin MapKeys(refMap)

----------------------------------------------------------------------------
\* v is an object that is no array and has no $ref key
PlainObject(h, v) ==
    /\ v.t = "ptr"
    /\ h[v.a].k = "object"
    /\ ~HasKey(h[v.a].e, "$ref")

\* components and components.schemas of the document are plain objects
PlainSchemasDoc ==
    /\ PlainObject(Loaded(doc).h, DocComponents)
    /\ PlainObject(Loaded(doc).h, DocSchemas)

\* the named schemas of the document, in order
SchemaEntries == ObjectEntries(Loaded(doc).h, DocSchemas)

\* the catalog the viewer builds: dereferenceSpec(D).components.schemas
OutSchemas == Get(heap, OutComponents, "schemas")

(* C29: for every document D whose components and components.schemas are   *)
(* plain objects without a $ref key, and every schema name N,               *)
(* dereferenceSpec(D).components.schemas[N] and                             *)
(* dereferenceAllSchemas(D).get('#/components/schemas/N') are structurally  *)
(* equal: each is the dereferencing of D.components.schemas[N] against the  *)
(* reference map of D, started with an empty visited set.                   *)
C29_CatalogsAgree ==
    PlainSchemasDoc =>
        \A i \in 1..Len(SchemaEntries) :
            LET name == SchemaEntries[i][1]
                want == DerefTree(Value(Loaded(doc).h, SchemaEntries[i][2]),
                                  DocMapTree, {})
            IN  /\ FirstPassDone =>
                      Value(heap, Get(heap, OutSchemas, name)) = want
                /\ AllReturned =>
                      Value(heap, MapGet(resolved, RefPath(name))) = want

\* dereferenceSpec has returned a catalog of two schemas in which the second
\* one holds the expansion of the first and the first, which refers to
\* itself through the second, holds a placeholder
C29_Witness ==
    /\ FirstPassDone
    /\ PlainSchemasDoc
    /\ Len(SchemaEntries) = 2
    /\ CyclicDoc
    /\ \E n \in AllNodes(heap, OutSchemas) : IsPlaceholder(heap, n)
    /\ \E i \in 1..2 :
          Value(heap, Get(heap, OutSchemas, SchemaEntries[i][1]))
              # Value(Loaded(doc).h, SchemaEntries[i][2])

----------------------------------------------------------------------------
\* tree tr is exactly { $ref: <path>, _circular: true }
IsPlaceholderTree(tr) ==
    /\ IsRefTree(tr)
    /\ tr = O(<< <<"$ref", Lookup(tr.e, "$ref")>>, <<"_circular", Bool(TRUE)>> >>)

\* the positions under paths and components of tree tr that lie inside no
\* reference node and hold a circular placeholder
PlaceholderPositions(tr) ==
    {pos \in OpenPositions(tr) :
        /\ pos # <<>>
        /\ Head(pos) \in {"paths", "components"}
        /\ IsPlaceholderTree(TreeAt(tr, pos))}

\* dereferenceSpec has been applied to its own result on a cyclic document
SecondPassOfCyclic ==
    /\ op = "dereferenceSpec"
    /\ Returned
    /\ Len(history) = 2
    /\ CyclicDoc

(* C30 as stated: when the output of dereferenceSpec on a cyclic document   *)
(* is dereferenced again, each placeholder {$ref: p, _circular: true} is    *)
(* treated as an ordinary $ref node (its _circular key is discarded) and is *)
(* expanded one more level, so the second pass never reproduces the first   *)
(* result.                                                                  *)
C30_PlaceholderNeverFixedPoint ==
    SecondPassOfCyclic =>
        LET t1 == Value(heap, history[1])
            t2 == Value(heap, history[2])
            mt == TreeMap(heap, refMap)
        IN  /\ t2 # t1
            /\ \A pos \in PlaceholderPositions(t1) :
                  /\ TreeAt(t2, pos)
                       = DerefTree(RefNode(Lookup(TreeAt(t1, pos).e, "$ref").s), mt, {})
                  /\ ~IsPlaceholderTree(TreeAt(t2, pos))

(* C30 amended: when the output of dereferenceSpec on a cyclic document is  *)
(* dereferenced again, each placeholder {$ref: p, _circular: true} under    *)
(* paths or components is treated as an ordinary $ref node and its          *)
(* _circular key plays no role.  When the reference map of the second pass  *)
(* holds for p a schema that is not itself a reference node, the            *)
(* placeholder is replaced by the dereferencing of that schema with p in    *)
(* progress: it is expanded one more level.  When the entry for p is itself *)
(* a reference node that names p, the second pass gives the same            *)
(* placeholder again.                                                       *)
C30_PlaceholderExpandedUnlessEntryIsRef ==
    SecondPassOfCyclic =>
        LET t1 == Value(heap, history[1])
            t2 == Value(heap, history[2])
            mt == TreeMap(heap, refMap)
        IN  \A pos \in PlaceholderPositions(t1) :
                LET p == Lookup(TreeAt(t1, pos).e, "$ref").s
                    e == MapGet(mt, p)
                IN  /\ TreeAt(t2, pos) = DerefTree(TreeAt(t1, pos), mt, {})
                    /\ (Truthy(e) /\ ~IsRefTree(e)) =>
                          /\ TreeAt(t2, pos) = DerefTree(e, mt, {p})
                          /\ ~IsRefTree(TreeAt(t2, pos))
                          /\ t2 # t1
                    /\ (IsRefTree(e) /\ Lookup(e.e, "$ref").s = p) =>
                          TreeAt(t2, pos) = TreeAt(t1, pos)

\* the second pass over the result for the document with the
\* self-referential Node has put, where the first result held a
\* placeholder, an object that holds the placeholder one level further down
C30_Witness ==
    /\ SecondPassOfCyclic
    /\ doc = CircularSpec
    /\ \E pos \in PlaceholderPositions(Value(heap, history[1])) :
          /\ ~IsRefTree(TreeAt(Value(heap, history[2]), pos))
          /\ \E q \in PlaceholderPositions(Value(heap, history[2])) :
                /\ Len(q) > Len(pos)
                /\ SubSeq(q, 1, Len(pos)) = pos

====
